---- MODULE Spec2Model ----
(***************************************************************************)
(* Model of the network-constrained Lasso section of the notebook          *)
(* tutorial_1_simulated_data.ipynb: the Laplacian square-root cell, the    *)
(* cell that prints the Gram-matrix error, the incidence-matrix exercise,  *)
(* the ncLasso estimator class (__init__, fit and predict), the cells that *)
(* simulate the data (X, the network W, the shuffle) and the cells of the  *)
(* Lasso section (the plain Lasso, the grid search and its report).        *)
(*                                                                         *)
(* Numbers.  The notebook computes in floating point; the model computes   *)
(* exactly.  A real matrix whose rows are square-root multiples of integer *)
(* vectors is held as a sequence of "surd rows" [sq, dn, v], standing for  *)
(* the row sqrt(sq/dn) * v.  Both square roots of the Laplacian have that  *)
(* form: a spectral row is sqrt(eigenvalue) * (v / |v|) for an integer     *)
(* eigenvector v, an incidence row is sqrt(w_uv) * (e_u - e_v).            *)
(***************************************************************************)
EXTENDS Integers, Sequences, FiniteSets, TLC

\* ---------------------------------------------------------------- bounds
NumFeats == 3       \* p: number of features (vertices of the graph)
MaxWeight == 1      \* adjacency entries are drawn from 0..MaxWeight
MaxCoord == 2       \* integer eigenvectors / test vectors have entries in -MaxCoord..MaxCoord

Feats == 1..NumFeats
Coords == (0 - MaxCoord)..MaxCoord

\* ------------------------------------------------------- exact arithmetic
Abs(x) == IF x < 0 THEN 0 - x ELSE x

Max2(a, b) == IF a >= b THEN a ELSE b

RECURSIVE SumTo(_, _)
SumTo(f, n) == IF n = 0 THEN 0 ELSE f[n] + SumTo(f, n - 1)

Sum(f) == SumTo(f, Len(f))

RECURSIVE MaxTo(_, _)
MaxTo(f, n) == IF n = 0 THEN 0 ELSE Max2(f[n], MaxTo(f, n - 1))

RECURSIVE Gcd(_, _)
Gcd(a, b) == IF b = 0 THEN a ELSE Gcd(b, a % b)

Lcm(a, b) == (a * b) \div Gcd(a, b)

RECURSIVE LcmTo(_, _)
LcmTo(f, n) == IF n = 0 THEN 1 ELSE Lcm(f[n], LcmTo(f, n - 1))

RECURSIVE DotTo(_, _, _)
DotTo(u, v, n) == IF n = 0 THEN 0 ELSE u[n] * v[n] + DotTo(u, v, n - 1)

Dot(u, v) == DotTo(u, v, Len(u))

ZeroVec(n) == [i \in 1..n |-> 0]

ZeroMat(r, c) == [i \in 1..r |-> ZeroVec(c)]

\* M * v for an integer matrix (a sequence of rows) and a vector
MatVec(M, v) == [i \in 1..Len(M) |-> Dot(M[i], v)]

\* np.max(np.abs(M)) of an integer matrix with c columns
MaxAbs(M, c) == MaxTo([i \in 1..Len(M) |-> MaxTo([j \in 1..c |-> Abs(M[i][j])], c)], Len(M))

\* ------------------------------------------------------------ adjacency W
\* The unordered pairs of distinct features, and the p x p symmetric,
\* non-negative, zero-diagonal matrices over them (the adjacency input).
Pairs == {e \in Feats \X Feats : e[1] < e[2]}

AdjOf(f) == [i \in Feats |-> [j \in Feats |->
                IF i = j THEN 0 ELSE IF i < j THEN f[<<i, j>>] ELSE f[<<j, i>>]]]

SymAdj == {AdjOf(f) : f \in [Pairs -> 0..MaxWeight]}

\* ------------------------------------------------- Laplacian (lines 977-978)
DegreeSkipFirst(W) == [j \in Feats |-> Sum([i \in Feats |-> IF i = 1 THEN 0 ELSE W[i][j]])]

\* degree = np.sum(W, axis=0): entry j is the sum of column j
Degree(W) == [j \in Feats |-> Sum([i \in Feats |-> W[i][j]])]

\* np.diag(degree)
Diag(d) == [i \in 1..Len(d) |-> [j \in 1..Len(d) |-> IF i = j THEN d[i] ELSE 0]]

MatSub(A, B) == [i \in 1..Len(A) |-> [j \in 1..Len(A[i]) |-> A[i][j] - B[i][j]]]

LaplacianSignless(W) == [i \in Feats |-> [j \in Feats |-> Diag(Degree(W))[i][j] + W[i][j]]]

LaplacianBroadcast(W) == [i \in Feats |-> [j \in Feats |-> Degree(W)[j] - W[i][j]]]

\* L = np.diag(degree) - W
Laplacian(W) == MatSub(Diag(Degree(W)), W)

Trace(M) == Sum([i \in 1..Len(M) |-> M[i][i]])

\* ------------------------------------------- np.linalg.eigh (line 981)
\* eigh returns the eigenvalues in ascending order and an orthonormal basis of
\* eigenvectors.  Which basis it returns inside an eigenspace, and with which
\* signs, is the solver's choice: Eigh(L) is the set of all results whose
\* eigenvectors are integer vectors (entries in Coords, no common factor)
\* divided by their length.  The vectors of eigenvalue 0 are not represented (a
\* zero-vector placeholder): line 988 multiplies them by sqrt(0).  An eigenvalue
\* 0 may come back as a negative rounding error, written -1 (lines 983-984).
Primitive(v) == \A d \in 2..MaxCoord : \E i \in 1..Len(v) : v[i] % d # 0

IntVecs == {v \in [Feats -> Coords] : v # ZeroVec(NumFeats) /\ Primitive(v)}

\* the eigenvalue of the integer vector v, if M v is a positive integer
\* multiple of v, and 0 otherwise
EigenValue(M, v) ==
    LET u == MatVec(M, v)
        k == CHOOSE i \in 1..Len(v) : v[i] # 0
        sigma == u[k] \div v[k]
    IN  IF sigma > 0 /\ \A i \in 1..Len(v) : u[i] = sigma * v[i] THEN sigma ELSE 0

\* the pairs <<sigma, v>> with L v = sigma v and sigma > 0
EigenPairs(M) == {<<EigenValue(M, v), v>> : v \in {x \in IntVecs : EigenValue(M, x) > 0}}

\* the orthogonal families of eigenpairs, eigenvalues ascending, that extend fam
\* and whose eigenvalues sum to rest: with rest = Trace(L) and L positive
\* semi-definite such a family spans every eigenspace of a non-zero eigenvalue.
RECURSIVE OrthoFamilies(_, _, _)
OrthoFamilies(E, fam, rest) ==
    IF rest = 0 THEN {fam}
    ELSE UNION {OrthoFamilies(E, Append(fam, e), rest - e[1]) :
                  e \in {x \in E : /\ x[1] <= rest
                                   /\ (fam = <<>> \/ x[1] >= fam[Len(fam)][1])
                                   /\ \A k \in 1..Len(fam) : Dot(fam[k][2], x[2]) = 0}}

RoundedZero == {0, -1}

Eigh(L) ==
    LET fams == OrthoFamilies(EigenPairs(L), <<>>, Trace(L))
    IN  UNION {LET null == NumFeats - Len(fam)
               IN  {[evals |-> [i \in Feats |-> IF i <= null THEN z[i] ELSE fam[i - null][1]],
                     evecs |-> [i \in Feats |-> IF i <= null THEN ZeroVec(NumFeats)
                                                 ELSE fam[i - null][2]]]
                     : z \in [1..null -> RoundedZero]}
               : fam \in {g \in fams : Len(g) <= NumFeats}}

\* ------------------------------------------- square root (lines 985-988)
ClampNone(evals) == evals

\* evals = np.maximum(0, evals)
Clamp(evals) == [i \in 1..Len(evals) |-> Max2(0, evals[i])]

\* one row of np.dot(np.diag(np.sqrt(evals)), evecs.T): sqrt(ev) * v / |v|
SurdRow(ev, v) == IF ev = 0 \/ v = ZeroVec(Len(v))
                    THEN [sq |-> ev, dn |-> 1, v |-> ZeroVec(Len(v))]
                    ELSE [sq |-> ev, dn |-> Dot(v, v), v |-> v]

SpectralSqrt(evals, evecs) == [i \in 1..Len(evals) |-> SurdRow(evals[i], evecs[i])]

\* ------------------------------- np.matmul(S.T, S) - L (line 998), exactly
\* the common denominator of the rows of S
Denom(S) == LcmTo([i \in 1..Len(S) |-> S[i].dn], Len(S))

\* Denom(S) * (S^T S): an integer matrix
GramNum(S) ==
    LET d == Denom(S)
    IN  [a \in Feats |-> [b \in Feats |->
           Sum([i \in 1..Len(S) |-> S[i].sq * (d \div S[i].dn) * S[i].v[a] * S[i].v[b]])]]

\* np.max(np.abs(np.matmul(S.T, S) - L)) as the fraction num / den
GramError(S, L) ==
    LET d == Denom(S)
        G == GramNum(S)
    IN  [num |-> MaxAbs([a \in Feats |-> [b \in Feats |-> G[a][b] - d * L[a][b]]], NumFeats),
         den |-> d]

\* ------------------------------------ incidence square root (exercise cell)
\* the edges <<u, v>>, u < v, of W from position k of the list of pairs on
RECURSIVE EdgesFrom(_, _, _)
EdgesFrom(W, u, v) ==
    IF u >= NumFeats THEN <<>>
    ELSE IF v > NumFeats THEN EdgesFrom(W, u + 1, u + 2)
    ELSE (IF W[u][v] > 0 THEN <<(<<u, v>>)>> ELSE <<>>) \o EdgesFrom(W, u, v + 1)

Edges(W) == EdgesFrom(W, 1, 2)

\* one row per edge (u, v): +sqrt(w_uv) at column u, -sqrt(w_uv) at column v
Incidence(W) ==
    [k \in 1..Len(Edges(W)) |->
        LET u == Edges(W)[k][1]
            v == Edges(W)[k][2]
        IN  [sq |-> W[u][v], dn |-> 1,
             v |-> [j \in Feats |-> IF j = u THEN 1 ELSE IF j = v THEN -1 ELSE 0]]]

\* --------------------------------------------------- ncLasso (lines 939-961)
\* The class is modelled by its methods __init__, fit and predict as their
\* lines state them.  (The body of predict, lines 959-961, is only comments,
\* which Python rejects when the cell is run; predict is taken as a method
\* whose body does nothing.)
MaxLambda == 1      \* regularization strengths are drawn from -MaxLambda..MaxLambda
NumObs == 1         \* n: number of observations handed to fit
MaxY == 1           \* responses are drawn from 0..MaxY

\* __init__ stores whatever it is given: negative strengths are inputs too
Lambdas == (0 - MaxLambda)..MaxLambda

\* the real number num / sqrt(den2)
Scaled(num, den2) == [num |-> num, den2 |-> den2]

\* the argument None / an attribute that is not set
NoMatrix == [given |-> FALSE, rows |-> <<>>]

Matrix(rows) == [given |-> TRUE, rows |-> rows]

NoLasso == [made |-> FALSE, alpha |-> Scaled(0, 1), fit_intercept |-> FALSE,
            fitted |-> FALSE, X |-> <<>>, y |-> <<>>]

NoVector == [set |-> FALSE, val |-> <<>>]

NoScalar == [set |-> FALSE, val |-> Scaled(0, 1)]

NoEstimator == [made |-> FALSE, LapSqrt |-> NoMatrix, lambda1 |-> 0, lambda2 |-> 0,
                lasso |-> NoLasso, coef_ |-> NoVector, intercept_ |-> NoScalar]

\* a method call: its arguments, the exception it ended with, what it returned
NoCall == [op |-> "none", X |-> <<>>, y |-> <<>>, raised |-> "none", ret |-> NoVector]

\* __init__ (lines 940-943): the three arguments are stored as given
NewEstimator(LapSqrt, lambda1, lambda2) ==
    [NoEstimator EXCEPT !.made = TRUE, !.LapSqrt = LapSqrt,
                        !.lambda1 = lambda1, !.lambda2 = lambda2]

\* the alpha of linear_model.Lasso(fit_intercept=True, alpha=self.lambda1)
InnerAlpha(lambda1, lambda2) == Scaled(lambda1, 1)

\* line 946: self.lasso = linear_model.Lasso(fit_intercept=True, alpha=self.lambda1)
InnerLasso(e) == [NoLasso EXCEPT !.made = TRUE, !.fit_intercept = TRUE,
                                 !.alpha = InnerAlpha(e.lambda1, e.lambda2)]

FitOutcomeRescalesLapSqrt(e, X, y) ==
    [est |-> [e EXCEPT !.lasso = InnerLasso(e),
                       !.LapSqrt.rows = [k \in 1..Len(e.LapSqrt.rows) |->
                           [e.LapSqrt.rows[k] EXCEPT !.sq = e.lambda2 * e.lambda2 * @]]],
     raised |-> "NameError"]

\* fit (lines 945-956) on the estimator e: the estimator after the call and the
\* exception the call ends with.  Line 946 binds self.lasso.  Line 952 then
\* evaluates the arguments X_new and y_new before the inner solver's fit is
\* entered: neither is a local of fit (lines 949-950 are comments) and no cell
\* of the notebook binds either name, so the lookup raises NameError.  Lines
\* 953-956 are not reached; they assign nothing (line 954 is a comment).
FitOutcome(e, X, y) ==
    [est |-> [e EXCEPT !.lasso = InnerLasso(e)], raised |-> "NameError"]

\* predict (lines 959-961) on the estimator e: the body holds no statement, so
\* the call reads nothing, assigns nothing, raises nothing and returns None
PredictOutcome(e, X) == [est |-> e, raised |-> "none", ret |-> NoVector]

\* ------------------------------------- data simulation (lines 63-69, 85)
\* Indices are written as the source writes them, from 0: entry [a, b] of a
\* numpy matrix M is M[a + 1][b + 1] of the sequence of rows that models it.
MaxNumFeats == 4    \* num_feats is drawn from 1..MaxNumFeats

\* np.random.binomial(1, 0.2, size=(n, p)): 0/1 matrices; the draws modelled
\* are those with at most one 1 in a row
UnitRows(p) == {ZeroVec(p)} \cup {[j \in 1..p |-> IF j = c THEN 1 ELSE 0] : c \in 1..p}

XSims(n, p) == [1..n -> UnitRows(p)]

\* ----------------------------------- network simulation (lines 156-164)
Eye(n) == Diag([i \in 1..n |-> 1])

\* round(num_feats / mod_size), num_feats being a multiple of mod_size
NumModules(nf, ms) == nf \div ms

BlockStepOneWay(A, i, nf, ms) ==
    [a \in 0..(nf - 1) |-> [b \in 0..(nf - 1) |->
        IF a \in (i * ms)..((i + 1) * ms - 1) /\ b \in (i * ms)..((i + 1) * ms - 1) THEN 1
        ELSE IF (i + 1) * ms # nf /\ a = (i + 1) * ms - 1 /\ b = (i + 1) * ms THEN 1
        ELSE A[a][b]]]

\* the body of the loop (lines 158-161) for module i, on the matrix A held as a
\* function of 0-based indices: the block of ones, then, unless i is the last
\* module (i == num_feats/mod_size - 1), the two entries of the link
BlockStep(A, i, nf, ms) ==
    [a \in 0..(nf - 1) |-> [b \in 0..(nf - 1) |->
        IF a \in (i * ms)..((i + 1) * ms - 1) /\ b \in (i * ms)..((i + 1) * ms - 1) THEN 1
        ELSE IF (i + 1) * ms # nf /\ a = (i + 1) * ms - 1 /\ b = (i + 1) * ms THEN 1
        ELSE IF (i + 1) * ms # nf /\ a = (i + 1) * ms /\ b = (i + 1) * ms - 1 THEN 1
        ELSE A[a][b]]]

\* for i in range(n), from i on
RECURSIVE BlockLoop(_, _, _, _, _)
BlockLoop(A, i, n, nf, ms) ==
    IF i >= n THEN A ELSE BlockLoop(BlockStep(A, i, nf, ms), i + 1, n, nf, ms)

\* W = np.zeros(...); the loop; W = W - np.eye(num_feats)
SimulateW(nf, ms) ==
    LET Z == [a \in 0..(nf - 1) |-> [b \in 0..(nf - 1) |-> 0]]
        B == BlockLoop(Z, 0, NumModules(nf, ms), nf, ms)
    IN  MatSub([a \in 1..nf |-> [b \in 1..nf |-> B[a - 1][b - 1]]], Eye(nf))

\* ------------------------------------------------ shuffle (lines 202-210)
\* the lists np.random.shuffle can leave in map_indices_l: the orderings of
\* 0 .. n-1
Shuffles(n) == {l \in [1..n -> 0..(n - 1)] : \A i \in 1..n : \A j \in 1..n : l[i] = l[j] => i = j}

MapIndicesForward(l) == [k \in 0..(Len(l) - 1) |-> l[k + 1]]

\* map_indices_r = dict(zip(map_indices_l, range(num_feats)))
MapIndicesR(l) == [k \in 0..(Len(l) - 1) |-> (CHOOSE j \in 1..Len(l) : l[j] = k) - 1]

\* M[:, l]
TakeCols(M, l) == [r \in 1..Len(M) |-> [j \in 1..Len(l) |-> M[r][l[j] + 1]]]

\* M[l, :]
TakeRows(M, l) == [i \in 1..Len(l) |-> M[l[i] + 1]]

\* causl = [map_indices_r[ix] for ix in range(num_causl)]
Causl(l, nc) == [ix \in 1..nc |-> MapIndicesR(l)[ix - 1]]

\* ------------------------------------ Lasso section (lines 557-696)
NumAlphas == 2      \* the grid alphas (line 619) is modelled with NumAlphas entries

\* a name of the kernel that no cell has bound yet
NoObject == [cls |-> "unbound", fitted |-> FALSE, best |-> 0]

\* line 557: linear_model.Lasso(fit_intercept=True, alpha=0.02), not fitted
PlainLasso == [cls |-> "Lasso", fitted |-> FALSE, best |-> 0]

\* lines 621-626: GridSearchCV(lasso, param_grid={'alpha': alphas}, ...), not fitted
GridSearch == [cls |-> "GridSearchCV", fitted |-> FALSE, best |-> 0]

\* line 641: fit on the training set; k is the index in alphas of the alpha the
\* cross-validation selects, and best_estimator_ is the Lasso refitted with it
GridFit(g, Xt, yt, k) == [g EXCEPT !.fitted = TRUE, !.best = k]

NoRead == [cell |-> "none", name |-> "none", attr |-> "none", cls |-> "none",
           raised |-> "none", best |-> 0]

\* what the expression name.attr does in a cell, o being the object bound to
\* name: NameError for an unbound name, AttributeError when the object has not
\* the attribute (a Lasso has coef_ once fitted and never best_estimator_ or
\* cv_results_, a GridSearchCV has best_estimator_ and cv_results_ once fitted)
ReadAttr(cell, name, o, attr) ==
    [cell |-> cell, name |-> name, attr |-> attr, cls |-> o.cls,
     raised |-> IF o.cls = "unbound" THEN "NameError"
                ELSE IF o.cls = "Lasso" /\ attr = "coef_" /\ o.fitted THEN "none"
                ELSE IF o.cls = "GridSearchCV" /\ attr \in {"best_estimator_", "cv_results_"}
                        /\ o.fitted THEN "none"
                ELSE "AttributeError",
     best |-> o.best]

\* ------------------------------------------------------------ state machine
VARIABLES
    W,          \* the adjacency matrix
    ns,         \* the names the Laplacian cells have bound in the kernel
    degree,     \* line 977
    L,          \* line 978
    rawEvals,   \* evals as eigh returned it (line 981), before line 985 rebinds the name
    evals,      \* lines 981, 985
    evecs,      \* line 981
    S,          \* the square root: line 988, or the incidence exercise
    mode,       \* which builder made S: "none", "spectral", "incidence"
    printed,    \* what line 998 printed last: <<>> or <<fraction>>
    est,        \* the ncLasso object model_ncLasso
    call,       \* the last method call on est and how it ended
    pc,         \* the next cell of a run from top to bottom; "any" when cells are run at will
    num_feats,  \* line 63
    mod_size,   \* line 67
    num_causl,  \* line 69
    Xmat,       \* the feature matrix X (line 85, line 206)
    map_indices_l,  \* lines 202-203
    causl,      \* line 210
    X_train,    \* the training set the Lasso section fits on
    y_train,
    model_l1,   \* line 557
    model_l1_cv,    \* line 623
    lastRead    \* the last attribute a cell of the Lasso section read from a model

lapVars == <<ns, degree, L, rawEvals, evals, evecs, S, mode, printed>>

dataVars == <<num_feats, mod_size, num_causl, Xmat, map_indices_l, causl>>

cvVars == <<X_train, y_train, model_l1, model_l1_cv, lastRead>>

nbVars == <<pc, dataVars, cvVars>>

vars == <<W, lapVars, est, call, nbVars>>

\* the n x p feature matrices handed to fit and predict: draws of line 85
Xs == XSims(NumObs, NumFeats)

Ys == [1..NumObs -> 0..MaxY]

\* arguments whose shapes do not match the estimator's: an X with p - 1
\* columns, a y with n + 1 entries
NarrowXs == {[i \in 1..NumObs |-> ZeroVec(NumFeats - 1)]}

LongYs == {ZeroVec(NumObs + 1)}

\* no cell of the Laplacian section has run
LapUnbound ==
    /\ degree = <<>>
    /\ L = <<>>
    /\ rawEvals = <<>>
    /\ evals = <<>>
    /\ evecs = <<>>
    /\ S = <<>>
    /\ mode = "none"
    /\ printed = <<>>
    /\ est = NoEstimator
    /\ call = NoCall

\* the data section as the Laplacian section finds it: p = NumFeats features
DataGiven ==
    /\ num_feats = NumFeats
    /\ mod_size = NumFeats
    /\ num_causl = NumFeats
    /\ Xmat = <<>>
    /\ map_indices_l = <<>>
    /\ causl = <<>>

\* no cell of the Lasso section has run
CvUnbound ==
    /\ model_l1 = NoObject
    /\ model_l1_cv = NoObject
    /\ lastRead = NoRead

Init ==
    /\ W \in SymAdj
    /\ ns = {"W"}
    /\ LapUnbound
    /\ pc = "any"
    /\ DataGiven
    /\ X_train = <<>>
    /\ y_train = <<>>
    /\ CvUnbound

\* the cell of lines 977-988.  eigh is a function of L: when the cell is run
\* again on the same W it returns what it returned before.  The cell is modelled
\* for the W whose decomposition Eigh can write down.
SqrtCell ==
    /\ pc = "any"
    /\ degree' = Degree(W)
    /\ L' = Laplacian(W)
    /\ IF "evecs" \in ns
         THEN UNCHANGED <<rawEvals, evecs>>
         ELSE \E r \in Eigh(L') :
                 /\ rawEvals' = r.evals
                 /\ evecs' = r.evecs
    /\ evals' = Clamp(rawEvals')
    /\ S' = SpectralSqrt(evals', evecs')
    /\ mode' = "spectral"
    /\ ns' = ns \cup {"degree", "L", "evals", "evecs", "S"}
    /\ UNCHANGED <<W, printed, est, call, nbVars>>

\* the cell of line 998; run before L and S are bound it raises NameError and
\* changes nothing
CheckCell ==
    /\ pc = "any"
    /\ {"L", "S"} \subseteq ns
    /\ printed' = <<GramError(S, L)>>
    /\ UNCHANGED <<W, ns, degree, L, rawEvals, evals, evecs, S, mode, est, call, nbVars>>

\* the exercise cell of line 1070, completed as the text above it asks
IncidenceCell ==
    /\ pc = "any"
    /\ S' = Incidence(W)
    /\ mode' = "incidence"
    /\ ns' = ns \cup {"S"}
    /\ UNCHANGED <<W, degree, L, rawEvals, evals, evecs, printed, est, call, nbVars>>

\* model_ncLasso = ncLasso(LapSqrt, lambda1, lambda2), LapSqrt being S or omitted
Construct ==
    /\ pc = "any"
    /\ \E l1 \in Lambdas, l2 \in Lambdas :
         \E A \in {NoMatrix} \cup (IF "S" \in ns THEN {Matrix(S)} ELSE {}) :
            est' = NewEstimator(A, l1, l2)
    /\ call' = NoCall
    /\ UNCHANGED <<W, lapVars, nbVars>>

\* model_ncLasso.fit(X, y)
Fit ==
    /\ pc = "any"
    /\ est.made
    /\ \E X \in Xs \cup NarrowXs, y \in Ys \cup LongYs :
          /\ est' = FitOutcome(est, X, y).est
          /\ call' = [op |-> "fit", X |-> X, y |-> y,
                      raised |-> FitOutcome(est, X, y).raised, ret |-> NoVector]
    /\ UNCHANGED <<W, lapVars, nbVars>>

\* model_ncLasso.predict(X)
Predict ==
    /\ pc = "any"
    /\ est.made
    /\ \E X \in Xs \cup NarrowXs :
          /\ est' = PredictOutcome(est, X).est
          /\ call' = [op |-> "predict", X |-> X, y |-> <<>>,
                      raised |-> PredictOutcome(est, X).raised,
                      ret |-> PredictOutcome(est, X).ret]
    /\ UNCHANGED <<W, lapVars, nbVars>>

Next == SqrtCell \/ CheckCell \/ IncidenceCell \/ Construct \/ Fit

Spec == Init /\ [][Next]_vars

\* the square-root builder alone: the cells of lines 977-998 and the exercise
NextLap == SqrtCell \/ CheckCell \/ IncidenceCell

SpecLap == Init /\ [][NextLap]_vars

\* the two builders without the printing cell
NextSqrt == SqrtCell \/ IncidenceCell

SpecSqrt == Init /\ [][NextSqrt]_vars

\* the estimator on the incidence square root of the simulated network
InitEst ==
    /\ Init
    /\ W = SimulateW(num_feats, mod_size)

NextEst == IncidenceCell \/ Construct \/ Fit \/ Predict

SpecEst == InitEst /\ [][NextEst]_vars

\* ---- the data section run from top to bottom: X, W, shuffle
InitData ==
    /\ pc = "X"
    /\ num_feats \in 1..MaxNumFeats
    /\ mod_size \in {m \in 1..MaxNumFeats : num_feats % m = 0}
    /\ num_causl \in 1..num_feats
    /\ Xmat = <<>>
    /\ W = <<>>
    /\ map_indices_l = <<>>
    /\ causl = <<>>
    /\ ns = {}
    /\ LapUnbound
    /\ X_train = <<>>
    /\ y_train = <<>>
    /\ CvUnbound

\* line 85
XCell ==
    /\ pc = "X"
    /\ Xmat' \in XSims(NumObs, num_feats)
    /\ pc' = "W"
    /\ UNCHANGED <<W, lapVars, est, call, num_feats, mod_size, num_causl,
                   map_indices_l, causl, cvVars>>

\* lines 156-164
NetworkCell ==
    /\ pc = "W"
    /\ W' = SimulateW(num_feats, mod_size)
    /\ ns' = ns \cup {"W"}
    /\ pc' = "shuffle"
    /\ UNCHANGED <<degree, L, rawEvals, evals, evecs, S, mode, printed, est, call,
                   dataVars, cvVars>>

\* lines 202-210
ShuffleCell ==
    /\ pc = "shuffle"
    /\ \E l \in Shuffles(num_feats) :
          /\ map_indices_l' = l
          /\ Xmat' = TakeCols(Xmat, l)
          /\ W' = TakeCols(TakeRows(W, l), l)
          /\ causl' = Causl(l, num_causl)
    /\ pc' = "end"
    /\ UNCHANGED <<lapVars, est, call, num_feats, mod_size, num_causl, cvVars>>

NextData == XCell \/ NetworkCell \/ ShuffleCell

SpecData == InitData /\ [][NextData]_vars

\* ---- the Lasso section run from top to bottom, on a training set
InitCV ==
    /\ pc = "model_l1"
    /\ X_train \in Xs
    /\ y_train \in Ys
    /\ CvUnbound
    /\ W = <<>>
    /\ ns = {}
    /\ LapUnbound
    /\ DataGiven

cvFrame == <<W, lapVars, est, call, dataVars, X_train, y_train>>

\* line 557
LassoCell ==
    /\ pc = "model_l1"
    /\ model_l1' = PlainLasso
    /\ pc' = "todo_fit"
    /\ UNCHANGED <<cvFrame, model_l1_cv, lastRead>>

\* line 573: the cell holds a comment and no statement
TodoFitCell ==
    /\ pc = "todo_fit"
    /\ pc' = "plot_l1"
    /\ UNCHANGED <<cvFrame, model_l1, model_l1_cv, lastRead>>

\* lines 589-599: the plot of model_l1.coef_
PlotLassoCell ==
    /\ pc = "plot_l1"
    /\ lastRead' = ReadAttr("plot_l1", "model_l1", model_l1, "coef_")
    /\ pc' = "grid"
    /\ UNCHANGED <<cvFrame, model_l1, model_l1_cv>>

\* lines 618-626
GridCell ==
    /\ pc = "grid"
    /\ model_l1_cv' = GridSearch
    /\ pc' = "cv_fit"
    /\ UNCHANGED <<cvFrame, model_l1, lastRead>>

\* line 641
GridFitCell ==
    /\ pc = "cv_fit"
    /\ \E k \in 1..NumAlphas : model_l1_cv' = GridFit(model_l1_cv, X_train, y_train, k)
    /\ pc' = "cv_plot"
    /\ UNCHANGED <<cvFrame, model_l1, lastRead>>

\* lines 657-662: the plot of model_l1_cv.cv_results_
CvPlotCell ==
    /\ pc = "cv_plot"
    /\ lastRead' = ReadAttr("cv_plot", "model_l1_cv", model_l1_cv, "cv_results_")
    /\ pc' = "report"
    /\ UNCHANGED <<cvFrame, model_l1, model_l1_cv>>

\* lines 671-674: best alpha and number of selected SNPs
ReportCell ==
    /\ pc = "report"
    /\ lastRead' = ReadAttr("report", "model_l1", model_l1, "best_estimator_")
    /\ pc' = "weights"
    /\ UNCHANGED <<cvFrame, model_l1, model_l1_cv>>

\* lines 690-700: the plot of the weights of the best model
WeightsCell ==
    /\ pc = "weights"
    /\ lastRead' = ReadAttr("weights", "model_l1", model_l1, "best_estimator_")
    /\ pc' = "end"
    /\ UNCHANGED <<cvFrame, model_l1, model_l1_cv>>

NextCV == LassoCell \/ TodoFitCell \/ PlotLassoCell \/ GridCell \/ GridFitCell
          \/ CvPlotCell \/ ReportCell \/ WeightsCell

SpecCV == InitCV /\ [][NextCV]_vars

\* ================================================================ claims
MaxBeta == 1        \* test vectors (coefficient vectors) have entries in -MaxBeta..MaxBeta

TestVecs == [Feats -> (0 - MaxBeta)..MaxBeta]

Symmetric(M) == \A i \in 1..Len(M) : \A j \in 1..Len(M) : M[i][j] = M[j][i]

RowSumsZero(M) == \A i \in 1..Len(M) : Sum(M[i]) = 0

\* x^T M x
RECURSIVE QuadTo(_, _, _)
QuadTo(M, x, n) == IF n = 0 THEN 0 ELSE x[n] * Dot(M[n], x) + QuadTo(M, x, n - 1)

Quad(M, x) == QuadTo(M, x, Len(M))

\* S^T S = M, exactly
GramIs(R, M) ==
    LET d == Denom(R)
        G == GramNum(R)
    IN  \A a \in Feats : \A b \in Feats : G[a][b] = d * M[a][b]

\* C6: for every symmetric, non-negative, zero-diagonal W the Laplacian the
\* notebook builds (degree = column sums, L = diag(degree) - W) is symmetric,
\* has every row summing to zero, and is positive semi-definite: x^T L x >= 0
\* for every vector x.  The L the cell binds is that matrix; W never changes,
\* so the three properties are evaluated once per W, before any square root
\* is built.
C6_LaplacianIdentity ==
    LET Lw == Laplacian(W)
    IN  /\ "L" \in ns => L = Lw /\ degree = Degree(W)
        /\ mode = "none" =>
              /\ Symmetric(Lw)
              /\ RowSumsZero(Lw)
              /\ \A x \in TestVecs : Quad(Lw, x) >= 0

C6_Witness ==
    /\ "L" \in ns
    /\ L = Laplacian(W)
    /\ \E i \in Feats : \E j \in Feats : i # j /\ L[i][j] < 0
    /\ \E x \in TestVecs : Quad(L, x) > 0

\* C7: the incidence square root S (one row per edge (u,v): +sqrt(w_uv) at
\* column u, -sqrt(w_uv) at column v, zero elsewhere) satisfies S^T S = L
\* exactly, L being diag(rowsum(W)) - W as the notebook builds it.
C7_IncidenceGramIsLaplacian ==
    mode = "incidence" =>
        /\ Len(S) = Cardinality({e \in Pairs : W[e[1]][e[2]] > 0})
        /\ GramIs(S, Laplacian(W))
        /\ "L" \in ns => GramError(S, L).num = 0

C7_Witness ==
    /\ mode = "incidence"
    /\ Len(S) >= 2
    /\ "L" \in ns
    /\ GramIs(S, L)

\* the sum over the edges (u,v), each counted once, of w_uv * (x_u - x_v)^2
RECURSIVE EdgeSumTo(_, _, _, _)
EdgeSumTo(A, E, x, k) ==
    IF k = 0 THEN 0
    ELSE LET diff == x[E[k][1]] - x[E[k][2]]
         IN  A[E[k][1]][E[k][2]] * diff * diff + EdgeSumTo(A, E, x, k - 1)

EdgeSum(A, E, x) == EdgeSumTo(A, E, x, Len(E))

\* d * ||R x||^2, d being the common denominator of the rows of R
RECURSIVE NormSqTo(_, _, _, _)
NormSqTo(R, d, x, i) ==
    IF i = 0 THEN 0
    ELSE LET rx == Dot(R[i].v, x)
         IN  R[i].sq * (d \div R[i].dn) * rx * rx + NormSqTo(R, d, x, i - 1)

NormSqNum(R, d, x) == NormSqTo(R, d, x, Len(R))

\* C8: for every W with Laplacian L, every square root S the builder yields with
\* S^T S = L (spectral, whatever basis the eigensolver returns, or incidence) and
\* every coefficient vector beta: beta^T L beta equals the sum over the edges of
\* w_uv (beta_u - beta_v)^2 and equals ||S beta||^2.
C8_PenaltyIdentity ==
    LET Lw == Laplacian(W)
        E == Edges(W)
        d == Denom(S)
    IN  ("S" \in ns /\ GramIs(S, Lw)) =>
            \A beta \in TestVecs :
                LET q == Quad(Lw, beta)
                IN  /\ q = EdgeSum(W, E, beta)
                    /\ d * q = NormSqNum(S, d, beta)

C8_Witness ==
    /\ mode = "spectral"
    /\ GramIs(S, L)
    /\ L = Laplacian(W)
    /\ Cardinality({i \in 1..Len(S) : S[i].sq > 0}) >= 2
    /\ \E beta \in TestVecs : NormSqNum(S, Denom(S), beta) > 0

\* the fraction f is below 1e-6 * scale
BelowTol(f, scale) == f.num * (10 ^ 6) < f.den * scale

\* C9: whenever the spectral builder has yielded S, max|S^T S - L| is below
\* tol = 1e-6 * max|L|: the check is a required self-check, and a build that
\* misses the tolerance ends in a NumericalError instead of yielding S.
C9_SpectralGramWithinTolerance ==
    mode = "spectral" => BelowTol(GramError(S, L), MaxAbs(L, NumFeats))

\* ---- claims about ncLasso.fit
\* the solver's answer is a function of what it is handed: the coefficients and
\* the intercept that Lasso(alpha, fit_intercept=True).fit(X, y) returns
LassoCoef(alpha, X, y) == [set |-> TRUE, val |-> <<"coef", alpha, X, y>>]

LassoIntercept(alpha, X, y) == [set |-> TRUE, val |-> <<"intercept", alpha, X, y>>]

\* a fit whose arguments match: X is n x p, y has n entries, S has p columns
WellFormedFit ==
    /\ call.op = "fit"
    /\ est.LapSqrt.given
    /\ Len(call.X) = Len(call.y)
    /\ \A i \in 1..Len(call.X) : Len(call.X[i]) = NumFeats
    /\ \A k \in 1..Len(est.LapSqrt.rows) : Len(est.LapSqrt.rows[k].v) = NumFeats
    /\ est.lambda1 >= 0
    /\ est.lambda2 >= 0

\* the two reals num / sqrt(den2) are equal (num >= 0)
SameReal(a, b) == a.num * a.num * b.den2 = b.num * b.num * a.den2

\* C1: an ncLasso fit with lambda2 = 0 produces the same coefficients as a plain
\* Lasso fit with the same lambda1 on the same (X, y).
C1_Lambda2ZeroIsPlainLasso ==
    (WellFormedFit /\ est.lambda2 = 0) =>
        /\ call.raised = "none"
        /\ est.coef_ = LassoCoef(Scaled(est.lambda1, 1), call.X, call.y)

\* C2: the L1 strength fit hands to the inner Lasso solver is
\* lambda1 / sqrt(1 + lambda2), for every lambda1 >= 0 and lambda2 >= 0.
C2_InnerAlphaRescaled ==
    (est.lasso.made /\ est.lambda1 >= 0 /\ est.lambda2 >= 0) =>
        SameReal(est.lasso.alpha, Scaled(est.lambda1, 1 + est.lambda2))

\* the design and the response of the claim: X / sqrt(1+lambda2) on top of
\* sqrt(lambda2) * S / sqrt(1+lambda2), and y on top of p' zeros
XNew(e, X) ==
    [i \in 1..Len(X) |-> [sq |-> 1, dn |-> 1 + e.lambda2, v |-> X[i]]]
    \o [k \in 1..Len(e.LapSqrt.rows) |->
          [sq |-> e.lambda2 * e.LapSqrt.rows[k].sq,
           dn |-> (1 + e.lambda2) * e.LapSqrt.rows[k].dn,
           v |-> e.LapSqrt.rows[k].v]]

YNew(e, y) == y \o [k \in 1..Len(e.LapSqrt.rows) |-> 0]

\* C3: the problem fit hands to the inner solver has the (n+p') x p design
\* X_new (X / sqrt(1+lambda2) over sqrt(lambda2) S / sqrt(1+lambda2)) and the
\* response y_new of length n+p' (y over p' zeros).
C3_AugmentedProblemHanded ==
    WellFormedFit =>
        /\ est.lasso.fitted
        /\ est.lasso.X = XNew(est, call.X)
        /\ Len(est.lasso.X) = Len(call.X) + Len(est.LapSqrt.rows)
        /\ est.lasso.y = YNew(est, call.y)

\* C4: after fit, coef_ has length p and is the inner solver's coefficient
\* vector divided by sqrt(1 + lambda2), and intercept_ is the inner solver's
\* fitted intercept unchanged.
C4_CoefRecovered ==
    WellFormedFit =>
        /\ est.coef_.set
        /\ est.coef_.val =
              <<"scaled", Scaled(1, 1 + est.lambda2),
                LassoCoef(est.lasso.alpha, est.lasso.X, est.lasso.y).val>>
        /\ est.intercept_ = LassoIntercept(est.lasso.alpha, est.lasso.X, est.lasso.y)

\* C5: the intercept fit yields comes from mean-centering over the n original
\* rows of (X, y) only; the p' synthetic rows take no part in the centering.
\* (The inner solver centres over every row of the design it is handed.)
C5_InterceptFromOriginalRows ==
    WellFormedFit =>
        /\ est.intercept_.set
        /\ est.lasso.fitted
        /\ est.lasso.fit_intercept
        /\ Len(est.lasso.X) = Len(call.X)

\* C10: when W is all-zero (so S is a zero matrix), a fit with any lambda2 >= 0
\* yields the same coefficients and intercept as the fit with lambda2 = 0 and
\* the same lambda1, X and y.
C10_DegenerateGraph ==
    (/\ WellFormedFit
     /\ W = ZeroMat(NumFeats, NumFeats)
     /\ \A k \in 1..Len(est.LapSqrt.rows) : est.LapSqrt.rows[k].sq = 0) =>
        LET plain == FitOutcome(NewEstimator(est.LapSqrt, est.lambda1, 0), call.X, call.y)
        IN  /\ est.coef_.set
            /\ est.intercept_.set
            /\ plain.raised = call.raised
            /\ est.coef_ = plain.est.coef_
            /\ est.intercept_ = plain.est.intercept_

\* ---- claims about the estimator's error handling and frame
\* the number of columns of the X a call was given
XCols(X) == IF Len(X) = 0 THEN 0 ELSE Len(X[1])

\* the last call was a fit whose shapes do not match: S and X differ in their
\* number of columns, or X has not as many rows as y has entries
ShapeMismatch ==
    /\ call.op = "fit"
    /\ \/ /\ est.LapSqrt.given
          /\ \E k \in 1..Len(est.LapSqrt.rows) : Len(est.LapSqrt.rows[k].v) # XCols(call.X)
       \/ Len(call.X) # Len(call.y)

\* C11: a fit whose shapes do not match (columns of S against columns of X,
\* rows of X against the length of y) raises ShapeError before the inner solver
\* is invoked; the inner solver's fit is never reached.
C11_ShapeMismatchRejected ==
    ShapeMismatch =>
        /\ call.raised = "ShapeError"
        /\ ~est.lasso.fitted

\* a step that is a call of fit or predict on the estimator
MethodStep == call'.op \in {"fit", "predict"} /\ (call' # call \/ est' # est)

\* C12: a fit that raises leaves the estimator as it was: the failed call sets
\* or changes none of the attributes fit produces (the inner solver object,
\* coef_, intercept_).
C12_FailedFitLeavesUnconfigured ==
    [][(MethodStep /\ call'.op = "fit" /\ call'.raised # "none") =>
          /\ est'.lasso = est.lasso
          /\ est'.coef_ = est.coef_
          /\ est'.intercept_ = est.intercept_]_vars

\* C13: predict before any successful fit is a ShapeError, and so is predict
\* with an X whose number of columns differs from len(coef_); predict returns a
\* prediction vector only after a successful fit and with a matching X.
C13_PredictGuarded ==
    call.op = "predict" =>
        IF est.coef_.set /\ XCols(call.X) = Len(est.coef_.val)
          THEN call.raised = "none" /\ call.ret.set
          ELSE call.raised = "ShapeError" /\ ~call.ret.set

C15_NegativeLambdaRejected ==
    (call.op = "fit" /\ (est.lambda1 < 0 \/ est.lambda2 < 0)) =>
        /\ call.raised = "ConfigurationError"
        /\ ~est.lasso.made

\* ---- claims about the spectral builder's clamp
\* C16: in the spectral construction every eigenvalue the eigensolver returns
\* is replaced by max(0, eigenvalue) before the square root is taken: no row
\* of S is the square root of a negative number.
C16_EigenvaluesClamped ==
    mode = "spectral" =>
        /\ Len(S) = Len(rawEvals)
        /\ \A i \in 1..Len(rawEvals) :
              /\ evals[i] = Max2(0, rawEvals[i])
              /\ S[i].sq = evals[i]
              /\ S[i].sq >= 0
              /\ S[i].dn > 0

C16_Witness ==
    /\ mode = "spectral"
    /\ \E i \in 1..Len(rawEvals) : rawEvals[i] < 0 /\ S[i].sq = 0
    /\ \E j \in 1..Len(S) : S[j].sq > 0

\* ---- claims about the data section
\* features a and b (counted from 0) are the last feature of one module and the
\* first feature of the next
Linked(a, b, ms) == (b = a + 1 /\ b % ms = 0) \/ (a = b + 1 /\ a % ms = 0)

\* C17: for num_feats a positive multiple of mod_size, the W the network cell
\* produces is symmetric, has entries in {0, 1} and a zero diagonal, and for
\* a # b has W[a,b] = 1 exactly when a and b lie in the same module of mod_size
\* consecutive features or are the last feature of one module and the first of
\* the next.
C17_ModularNetwork ==
    pc = "shuffle" =>
        /\ Len(W) = num_feats
        /\ \A a \in 0..(num_feats - 1) :
              /\ Len(W[a + 1]) = num_feats
              /\ W[a + 1][a + 1] = 0
              /\ \A b \in 0..(num_feats - 1) :
                    /\ W[a + 1][b + 1] \in {0, 1}
                    /\ W[a + 1][b + 1] = W[b + 1][a + 1]
                    /\ a # b =>
                         (W[a + 1][b + 1] = 1 <=>
                            (a \div mod_size = b \div mod_size \/ Linked(a, b, mod_size)))

C17_Witness ==
    /\ pc = "shuffle"
    /\ num_feats = 4
    /\ mod_size = 2
    /\ W[1][2] = 1
    /\ W[2][3] = 1
    /\ W[1][3] = 0
    /\ W[3][4] = 1

\* C18: the shuffle cell applies the permutation it draws to the columns of X
\* and to the rows and columns of W alike, and causl records where the first
\* num_causl features went: the new column causl[ix] of X is the old column ix,
\* the new W[causl[ix], causl[jx]] is the old W[ix, jx]; the new W is symmetric
\* with a zero diagonal.
C18_ShuffleConsistent ==
    [][(pc = "shuffle" /\ pc' = "end") =>
          /\ \A r \in 1..Len(Xmat) : \A j \in 1..num_feats :
                Xmat'[r][j] = Xmat[r][map_indices_l'[j] + 1]
          /\ \A a \in 1..num_feats : \A b \in 1..num_feats :
                W'[a][b] = W[map_indices_l'[a] + 1][map_indices_l'[b] + 1]
          /\ Len(causl') = num_causl
          /\ \A ix \in 0..(num_causl - 1) :
                /\ \A r \in 1..Len(Xmat) : Xmat'[r][causl'[ix + 1] + 1] = Xmat[r][ix + 1]
                /\ \A jx \in 0..(num_causl - 1) :
                      W'[causl'[ix + 1] + 1][causl'[jx + 1] + 1] = W[ix + 1][jx + 1]
          /\ Symmetric(W')
          /\ \A a \in 1..num_feats : W'[a][a] = 0]_vars

C18_Witness ==
    /\ pc = "end"
    /\ num_causl >= 2
    /\ \E j \in 1..num_feats : map_indices_l[map_indices_l[j] + 1] # j - 1
    /\ \E r \in 1..Len(Xmat) : \E j \in 1..num_causl : Xmat[r][causl[j] + 1] = 1
    /\ \E a \in 1..num_causl : \E b \in 1..num_causl : W[causl[a] + 1][causl[b] + 1] = 1

\* ---- claims about the Lasso section
\* C19: in a run from top to bottom, every cell that reports the cross-validated
\* Lasso (best alpha, number of selected SNPs, weight plot) reads
\* best_estimator_ from the GridSearchCV object the preceding cell fitted, not
\* from the plain Lasso model.
C19_ReportReadsFittedGridSearch ==
    lastRead.attr = "best_estimator_" =>
        /\ lastRead.name = "model_l1_cv"
        /\ lastRead.cls = "GridSearchCV"
        /\ lastRead.raised = "none"
        /\ lastRead.best \in 1..NumAlphas

====
